---- MODULE Spec2Model ----
(***************************************************************************)
(* check_routeros.py: a monitoring plugin built on nagiosplugin.  The      *)
(* module models                                                           *)
(*   - the percent-threshold context (ScalarPercentContext) down to the    *)
(*     characters of the threshold strings: the regular-expression         *)
(*     substitution of "<digits>%" tokens, the formatting of the product   *)
(*     and the parsing of the result into a Range;                         *)
(*   - the four commands (interface.vrrp, system.memory, system.uptime,    *)
(*     tool.ping) as a run of the plugin: construction of the check, the   *)
(*     connection, the probe as a generator, the evaluation of each metric *)
(*     by its context, the reduction to one state and the exit.            *)
(* Strings are sequences of one-character strings.  Numbers read from a    *)
(* threshold are decimals [i, frac]: an integer part and the digits after  *)
(* the point (no trailing zeros).  The arithmetic of line 91 is decimal    *)
(* and exact here; the inputs enumerated are ones on which Python's double *)
(* arithmetic prints the same decimal.                                     *)
(***************************************************************************)
EXTENDS Integers, Sequences, FiniteSets, TLC

(***************************************************************************)
(* Characters and numbers                                                  *)
(***************************************************************************)
Digits == {"0", "1", "2", "3", "4", "5", "6", "7", "8", "9"}

DigitVal(c) ==
    CASE c = "0" -> 0 [] c = "1" -> 1 [] c = "2" -> 2 [] c = "3" -> 3
      [] c = "4" -> 4 [] c = "5" -> 5 [] c = "6" -> 6 [] c = "7" -> 7
      [] c = "8" -> 8 [] c = "9" -> 9

DigitChar(d) ==
    CASE d = 0 -> "0" [] d = 1 -> "1" [] d = 2 -> "2" [] d = 3 -> "3"
      [] d = 4 -> "4" [] d = 5 -> "5" [] d = 6 -> "6" [] d = 7 -> "7"
      [] d = 8 -> "8" [] d = 9 -> "9"

AllDigits(s) == \A k \in 1..Len(s) : s[k] \in Digits

\* int("<digits>"): the value of a non-empty run of decimal digits.
RECURSIVE IntOfDigits(_)
IntOfDigits(s) ==
    IF s = <<>> THEN 0
    ELSE 10 * IntOfDigits(SubSeq(s, 1, Len(s) - 1)) + DigitVal(s[Len(s)])

\* str(n) for an integer n >= 0.
RECURSIVE IntToChars(_)
IntToChars(n) ==
    IF n < 10 THEN <<DigitChar(n)>>
    ELSE Append(IntToChars(n \div 10), DigitChar(n % 10))

\* The digits after the point without their trailing zeros.
RECURSIVE StripZeros(_)
StripZeros(s) ==
    IF s # <<>> /\ s[Len(s)] = "0" THEN StripZeros(SubSeq(s, 1, Len(s) - 1))
    ELSE s

Fin(i, frac) == [k |-> "fin", i |-> i, frac |-> frac]
PosInf == [k |-> "inf", i |-> 0, frac |-> <<>>]
IntNum(n) == Fin(n, <<>>)

\* Digit sequences without trailing zeros, compared as fractions.
RECURSIVE FracLess(_, _)
FracLess(a, b) ==
    IF b = <<>> THEN FALSE
    ELSE IF a = <<>> THEN TRUE
    ELSE IF a[1] # b[1] THEN DigitVal(a[1]) < DigitVal(b[1])
    ELSE FracLess(Tail(a), Tail(b))

\* a < b on the numbers a Range holds (Python's < on int, float and inf).
NumLess(a, b) ==
    IF a.k = "inf" THEN FALSE
    ELSE IF b.k = "inf" THEN TRUE
    ELSE a.i < b.i \/ (a.i = b.i /\ FracLess(a.frac, b.frac))

(***************************************************************************)
(* Values of metrics and attributes: Python's int, bool and None.          *)
(***************************************************************************)
IntV(n) == [t |-> "int", b |-> FALSE, n |-> n]
BoolV(b) == [t |-> "bool", b |-> b, n |-> 0]
NoneV == [t |-> "none", b |-> FALSE, n |-> 0]
\* bool(v), as "if v" and "not v" take it.
Truthy(v) == IF v.t = "bool" THEN v.b ELSE IF v.t = "int" THEN v.n # 0 ELSE FALSE
\* v is True
IsTrue(v) == v.t = "bool" /\ v.b

(***************************************************************************)
(* nagiosplugin.Range, as the constructor called in lines 104-105 parses a *)
(* threshold: [@][start:]end, start defaulting to 0 and end to infinity,   *)
(* an atom with a point read by float() and any other atom by int(), and   *)
(* start <= end required.  ok = FALSE stands for the ValueError raised.    *)
(***************************************************************************)
NoRange == [none |-> TRUE, start |-> IntNum(0), end |-> PosInf, invert |-> FALSE]
MkRange(start, end, invert) ==
    [none |-> FALSE, start |-> start, end |-> end, invert |-> invert]

Count(s, c) == Cardinality({k \in 1..Len(s) : s[k] = c})
IndexOf(s, c) == CHOOSE k \in 1..Len(s) : s[k] = c /\ \A j \in 1..(k - 1) : s[j] # c

ParseAtom(atom, default) ==
    IF atom = <<>> THEN [ok |-> TRUE, num |-> default]
    ELSE IF Count(atom, ".") > 0
    THEN \* float(atom)
         LET p == IndexOf(atom, ".")
             ip == SubSeq(atom, 1, p - 1)
             fp == SubSeq(atom, p + 1, Len(atom))
         IN  IF AllDigits(ip) /\ AllDigits(fp) /\ Len(ip) + Len(fp) > 0
             THEN [ok |-> TRUE, num |-> Fin(IntOfDigits(ip), StripZeros(fp))]
             ELSE [ok |-> FALSE, num |-> default]
    ELSE \* int(atom)
         IF AllDigits(atom)
         THEN [ok |-> TRUE, num |-> IntNum(IntOfDigits(atom))]
         ELSE [ok |-> FALSE, num |-> default]

Range(spec) ==
    LET invert == spec # <<>> /\ spec[1] = "@"
        atoms == IF invert THEN Tail(spec) ELSE spec
        colons == Count(atoms, ":")
        p == IF colons > 0 THEN IndexOf(atoms, ":") ELSE 0
        start == ParseAtom(SubSeq(atoms, 1, p - 1), IntNum(0))
        end == ParseAtom(SubSeq(atoms, p + 1, Len(atoms)), PosInf)
    IN  IF colons > 1 \/ ~start.ok \/ ~end.ok \/ NumLess(end.num, start.num)
        THEN [ok |-> FALSE, r |-> NoRange]
        ELSE [ok |-> TRUE, r |-> MkRange(start.num, end.num, invert)]

\* Range.match: the value lies inside [start, end], or outside when inverted.
Match(r, value) ==
    LET inside == ~NumLess(IntNum(value), r.start) /\ ~NumLess(r.end, IntNum(value))
    IN  inside # r.invert

(***************************************************************************)
(* ScalarPercentContext._prepare_ranges                                    *)
(***************************************************************************)
\* A product that is not divided by 100.
FloatStr_undivided(total, value) == IntToChars(total * value) \o <<".", "0">>

\* str(float(total_value) * (float(value) / 100)): the integer part, a point
\* and the hundredths without a trailing zero.
FloatStr(total, value) ==
    LET i == (total \div 100) * value + ((total % 100) * value) \div 100
        h == ((total % 100) * value) % 100
    IN  IntToChars(i) \o <<".">> \o
        (IF h % 10 = 0 THEN <<DigitChar(h \div 10)>>
                       ELSE <<DigitChar(h \div 10), DigitChar(h % 10)>>)

\* replace(m): m.group("value") and m.group("unit") of one match.  float(None)
\* is a TypeError; another unit is the ValueError of line 93.
replace(value, unit, total_value) ==
    IF unit = "%"
    THEN IF total_value.t = "int"
         THEN [exc |-> "", out |-> FloatStr(total_value.n, IntOfDigits(value))]
         ELSE [exc |-> "TypeError", out |-> <<>>]
    ELSE [exc |-> "ValueError", out |-> <<>>]

\* The length of the run of digits s starts with.
RECURSIVE DigitRun(_)
DigitRun(s) ==
    IF s # <<>> /\ s[1] \in Digits THEN 1 + DigitRun(Tail(s)) ELSE 0

\* An exception raised while the pieces of the new string are joined ends
\* the substitution.
Joined(head, rest) ==
    IF head.exc # "" THEN head
    ELSE IF rest.exc # "" THEN rest
    ELSE [exc |-> "", out |-> head.out \o rest.out]

\* regex.sub(replace, s) for the pattern (?P<value>\d+)(?P<unit>[%]): from the
\* left, every run of digits that a "%" follows is replaced, everything else
\* is copied.  n is the length of the run of digits s starts with.
RECURSIVE RegexSub(_, _)
\* A pattern that takes the unit "M" as well and converts it like "%".
RegexSubAt_any_unit(s, total_value, n) ==
    IF n >= 1 /\ Len(s) > n /\ s[n + 1] \in {"%", "M"}
    THEN Joined(replace(SubSeq(s, 1, n), "%", total_value),
                RegexSub(SubSeq(s, n + 2, Len(s)), total_value))
    ELSE Joined([exc |-> "", out |-> <<s[1]>>], RegexSub(Tail(s), total_value))

RegexSubAt(s, total_value, n) ==
    IF n >= 1 /\ Len(s) > n /\ s[n + 1] = "%"
    THEN Joined(replace(SubSeq(s, 1, n), s[n + 1], total_value),
                RegexSub(SubSeq(s, n + 2, Len(s)), total_value))
    ELSE Joined([exc |-> "", out |-> <<s[1]>>], RegexSub(Tail(s), total_value))

RegexSub(s, total_value) ==
    IF s = <<>> THEN [exc |-> "", out |-> <<>>]
    ELSE RegexSubAt(s, total_value, DigitRun(s))

\* A context object: its class, its name and its thresholds.  p_warning and
\* p_critical are the _warning and _critical strings of a
\* ScalarPercentContext.
Context(cls, name, total_name, p_warning, p_critical, warning, critical) ==
    [cls |-> cls, name |-> name, total_name |-> total_name,
     p_warning |-> p_warning, p_critical |-> p_critical,
     warning |-> warning, critical |-> critical]

\* An __init__ that refuses a threshold with a unit other than "%".
ScalarPercentContext_eager(name, total_name, warning, critical) ==
    [exc |-> IF \E i \in 1..Len(warning) : warning[i] = "M" THEN "ValueError"
             ELSE IF \E i \in 1..Len(critical) : critical[i] = "M" THEN "ValueError"
             ELSE "",
     ctx |-> Context("ScalarPercentContext", name, total_name, warning, critical,
                     NoRange, NoRange)]

\* ScalarPercentContext.__init__: the strings are kept as given and both
\* ranges start as None; nothing is parsed, so nothing is raised.
ScalarPercentContext(name, total_name, warning, critical) ==
    [exc |-> "",
     ctx |-> Context("ScalarPercentContext", name, total_name, warning, critical,
                     NoRange, NoRange)]

\* What _prepare_ranges leaves: the context, the exception raised ("" for
\* none), the lines printed and whether the total was read.
Prepared(ctx, e, out, read) == [ctx |-> ctx, exc |-> e, printed |-> out, read |-> read]

\* Lines 104-105: the strings w and cr become the ranges rw and rc, the
\* warning range is assigned before the critical one is parsed.
assign_ranges(c, w, cr, rw, rc) ==
    IF ~rw.ok THEN Prepared(c, "ValueError", <<w, cr>>, TRUE)
    ELSE IF ~rc.ok THEN Prepared([c EXCEPT !.warning = rw.r], "ValueError", <<w, cr>>, TRUE)
    ELSE Prepared([c EXCEPT !.warning = rw.r, !.critical = rc.r], "", <<w, cr>>, TRUE)

\* Lines 101-102: the two substitutions, printed one after the other.
print_ranges(c, w, cr) ==
    IF w.exc # "" THEN Prepared(c, w.exc, <<>>, TRUE)
    ELSE IF cr.exc # "" THEN Prepared(c, cr.exc, <<w.out>>, TRUE)
    ELSE assign_ranges(c, w.out, cr.out, Range(w.out), Range(cr.out))

\* A _prepare_ranges without the early return of lines 95-96.
prepare_ranges_again(c, total_value) ==
    print_ranges(c, RegexSub(c.p_warning, total_value), RegexSub(c.p_critical, total_value))

\* _prepare_ranges(metric, resource)
prepare_ranges(c, total_value) ==
    IF ~c.warning.none /\ ~c.critical.none THEN Prepared(c, "", <<>>, FALSE)
    ELSE print_ranges(c, RegexSub(c.p_warning, total_value),
                      RegexSub(c.p_critical, total_value))

\* nagiosplugin.ScalarContext.evaluate, reached through super() in line 109.
ScalarEvaluate(warning, critical, value) ==
    IF ~Match(critical, value) THEN "critical"
    ELSE IF ~Match(warning, value) THEN "warning"
    ELSE "ok"

\* nagiosplugin.ScalarContext.performance, reached through super() in line 113.
ScalarPerformance(name, value, warning, critical) ==
    [label |-> name, value |-> value, warn |-> warning, crit |-> critical]

\* What a call of evaluate or performance leaves: what _prepare_ranges left,
\* the exception raised and the state or the performance data returned.
Called(p, e, state, perf) ==
    [ctx |-> p.ctx, exc |-> e, printed |-> p.printed, read |-> p.read,
     state |-> state, perf |-> perf]

NoPerf == [label |-> "", value |-> NoneV, warn |-> NoRange, crit |-> NoRange]

\* The call of a context that prepares nothing.
Plain(c, e, state, perf) == Called(Prepared(c, "", <<>>, FALSE), e, state, perf)

\* Line 109: super().evaluate with the ranges prepared; a value compared
\* with a bound must be a number.
super_evaluate(p, value) ==
    IF p.exc # "" THEN Called(p, p.exc, "", NoPerf)
    ELSE IF value.t = "none" THEN Called(p, "TypeError", "", NoPerf)
    ELSE Called(p, "", ScalarEvaluate(p.ctx.warning, p.ctx.critical, value.n), NoPerf)

\* ScalarPercentContext.evaluate
PercentEvaluate(c, value, total_value) ==
    super_evaluate(prepare_ranges(c, total_value), value)

\* Line 113: super().performance with the ranges prepared.
super_performance(p, name, value) ==
    IF p.exc # "" THEN Called(p, p.exc, "", NoPerf)
    ELSE Called(p, "", "", ScalarPerformance(name, value, p.ctx.warning, p.ctx.critical))

\* ScalarPercentContext.performance
PercentPerformance(c, value, total_value) ==
    super_performance(prepare_ranges(c, total_value), c.name, value)

(***************************************************************************)
(* State                                                                   *)
(***************************************************************************)
VARIABLES
    pc,          \* where the run stands
    command,     \* the command given on the command line
    opts,        \* its options
    device,      \* what the device answers
    connected,   \* _connect_api has been called
    resource,    \* the attributes of the Resource object
    contexts,    \* the contexts of the check, by name
    gen,         \* the position of the probe generator
    metric,      \* the metric yielded last
    yielded,     \* the names of the metrics yielded so far
    results,     \* check.results
    perfdata,    \* check.perfdata
    fieldsRead,  \* the fields of the device's answer read so far
    totalRead,   \* the values _prepare_ranges has read from the resource
    printed,     \* the lines printed by _prepare_ranges
    exc,         \* the exception raised, "" for none
    status,      \* the state the plugin reports
    exitcode,    \* the exit code of the process
    summary,     \* the names of the results the summary is built from
    calls,       \* calls made on a context under test
    lastState,   \* the state the last evaluate returned
    perfSeen     \* value -> what performance returned for it last

vars == <<pc, command, opts, device, connected, resource, contexts, gen, metric, yielded, results,
          perfdata, fieldsRead, totalRead, printed, exc, status, exitcode, summary,
          calls, lastState, perfSeen>>

(***************************************************************************)
(* The contexts of nagiosplugin and of this plugin                         *)
(***************************************************************************)
\* nagiosplugin.ScalarContext(name, warning, critical): both thresholds are
\* parsed on construction (None is the empty threshold).
ScalarContext(name, warning, critical) ==
    LET w == Range(warning)
        c == Range(critical)
    IN  [exc |-> IF w.ok /\ c.ok THEN "" ELSE "ValueError",
         ctx |-> Context("ScalarContext", name, "", <<>>, <<>>, w.r, c.r)]

\* BooleanContext and its subclasses take a name only.
BooleanContext(cls, name) == Context(cls, name, "", <<>>, <<>>, NoRange, NoRange)

\* An evaluate that tests the truth of the value, not `is True`.
InterfaceVrrpDisabled_truthy(value) == IF Truthy(value) THEN "warning" ELSE "ok"

\* InterfaceVrrpDisabled.evaluate
InterfaceVrrpDisabled(value) == IF IsTrue(value) THEN "warning" ELSE "ok"

\* InterfaceVrrpInvalid.evaluate
InterfaceVrrpInvalid(value) == IF IsTrue(value) THEN "warning" ELSE "ok"

\* InterfaceVrrpMaster.evaluate
InterfaceVrrpMaster(value, master_must) ==
    IF ~Truthy(value) /\ Truthy(master_must) THEN "warning" ELSE "ok"

\* BooleanContext.performance
BooleanPerformance(name, value) ==
    [label |-> name, value |-> IntV(IF Truthy(value) THEN 1 ELSE 0),
     warn |-> NoRange, crit |-> NoRange]

(***************************************************************************)
(* The states of nagiosplugin and the reduction of the results that        *)
(* check.main makes: the state of the check is the greatest of its         *)
(* results' states by code (Ok 0, Warn 1, Critical 2, Unknown 3), Unknown  *)
(* when there is no result.                                                *)
(***************************************************************************)
\* Codes that put Unknown below Ok.
StateCode_unknown_least(st) ==
    CASE st = "ok" -> 0 [] st = "warning" -> 1 [] st = "critical" -> 2
      [] st = "unknown" -> -1

StateCode(st) ==
    CASE st = "ok" -> 0 [] st = "warning" -> 1 [] st = "critical" -> 2
      [] st = "unknown" -> 3

\* A reduction that takes the state of the first result.
FirstState(rs) == IF rs = <<>> THEN "unknown" ELSE rs[1].state

MostSignificantState(rs) ==
    IF rs = <<>> THEN "unknown"
    ELSE LET k == CHOOSE k \in 1..Len(rs) :
                      \A j \in 1..Len(rs) : StateCode(rs[j].state) <= StateCode(rs[k].state)
         IN  rs[k].state

\* results.first_significant: the first result in the most significant state.
FirstSignificant(rs) ==
    LET k == CHOOSE k \in 1..Len(rs) :
                 /\ rs[k].state = MostSignificantState(rs)
                 /\ \A j \in 1..(k - 1) : rs[j].state # MostSignificantState(rs)
    IN  rs[k]

\* The names of the results the summary line is built from.  Summary.ok takes
\* the first result and SystemMemorySummary.ok the results named in
\* result_names; Summary.problem, which neither overrides, takes
\* first_significant.
SummaryNames(result_names, rs) ==
    IF rs = <<>> THEN <<>>
    ELSE IF MostSignificantState(rs) = "ok"
    THEN (IF result_names = <<>> THEN <<rs[1].name>> ELSE result_names)
    ELSE <<FirstSignificant(rs).name>>

\* The commands whose function is wrapped in @nagiosplugin.guarded.
\* Only system_memory decorated.
Guarded_memory_only(cmd) == cmd \in {"system.memory"}

Guarded(cmd) == cmd \in {"system.memory", "system.uptime"}

\* The rank of a label among the labels of the plugin in the order of sorted().
LabelRank(l) ==
    CASE l = "backup" -> 1 [] l = "disabled" -> 2 [] l = "free" -> 3
      [] l = "invalid" -> 4 [] l = "master" -> 5 [] l = "packet_loss" -> 6
      [] l = "received" -> 7 [] l = "rtt_avg" -> 8 [] l = "rtt_max" -> 9
      [] l = "rtt_min" -> 10 [] l = "running" -> 11 [] l = "sent" -> 12
      [] l = "size" -> 13 [] l = "ttl" -> 14 [] l = "uptime" -> 15
      [] l = "used" -> 16

\* sorted(perfdata): every entry starts with its label, and the labels differ.
RECURSIVE SortedPerf(_)
SortedPerf(ps) ==
    IF ps = <<>> THEN <<>>
    ELSE LET k == CHOOSE k \in 1..Len(ps) :
                      \A j \in 1..Len(ps) : LabelRank(ps[k].label) <= LabelRank(ps[j].label)
         IN  <<ps[k]>> \o SortedPerf(SubSeq(ps, 1, k - 1) \o SubSeq(ps, k + 1, Len(ps)))

(***************************************************************************)
(* The probes.  A probe is a generator: each step runs its code from the   *)
(* yield it stopped at (g yields so far; the connection is made) to the    *)
(* next yield, to its end (done) or to an exception.  A step gives the     *)
(* attributes of the resource afterwards, the metric yielded, the fields   *)
(* of the answer it read and the place the generator stops at (next).      *)
(***************************************************************************)
Metric(name, value, uom, min, max) ==
    [name |-> name, value |-> value, uom |-> uom, min |-> min, max |-> max]
NoMetric == Metric("", NoneV, "", NoneV, NoneV)

Yield(res, m, read, next) ==
    [resource |-> res, metric |-> m, read |-> read, exc |-> "", done |-> FALSE, next |-> next]
Raise(res, e, read) ==
    [resource |-> res, metric |-> NoMetric, read |-> read, exc |-> e, done |-> FALSE, next |-> 0]
Return(res, read) ==
    [resource |-> res, metric |-> NoMetric, read |-> read, exc |-> "", done |-> TRUE, next |-> 0]

\* InterfaceVrrpCheck.probe; from the second step on g is the place in the
\* tuple of names the loop goes through.
VrrpNames == <<"backup", "invalid", "master", "running">>
InterfaceVrrpCheck_step(g, d, res) ==
    IF g = 0
    THEN IF d.rows = 0 THEN Raise(res, "IndexError", {})
         ELSE LET r == [res EXCEPT !.disabled = d.vrrp.disabled,
                                   !.enabled = BoolV(~Truthy(d.vrrp.disabled))]
              IN  Yield(r, Metric("disabled", r.disabled, "", NoneV, NoneV), {"disabled"}, 1)
    ELSE IF ~Truthy(res.enabled) THEN Return(res, {})
    ELSE LET left == {i \in g..Len(VrrpNames) : VrrpNames[i] \in d.vrrp.present}
         IN  IF left = {} THEN Return(res, {})
             ELSE LET i == CHOOSE i \in left : \A j \in left : i <= j
                      n == VrrpNames[i]
                      v == d.vrrp[n]
                  IN  Yield([res EXCEPT ![n] = v], Metric(n, v, "", NoneV, NoneV), {n}, i + 1)

\* A probe that sets memory_total only after its first yield.
SystemMemoryResource_step_late(g, d, res) ==
    IF g = 0
    THEN IF d.rows = 0 THEN Raise(res, "IndexError", {})
         ELSE Yield(res, Metric("free", IntV(d.memory.free), "B", IntV(0),
                                IntV(d.memory.total)),
                    {"free-memory", "total-memory"}, 1)
    ELSE IF g = 1
    THEN Yield([res EXCEPT !.memory_total = IntV(d.memory.total)],
               Metric("used", IntV(d.memory.total - d.memory.free), "B", IntV(0),
                      IntV(d.memory.total)), {}, 2)
    ELSE Return(res, {})

\* SystemMemoryResource.probe
SystemMemoryResource_step(g, d, res) ==
    IF g = 0
    THEN IF d.rows = 0 THEN Raise(res, "IndexError", {})
         ELSE LET r == [res EXCEPT !.memory_total = IntV(d.memory.total)]
              IN  Yield(r, Metric("free", IntV(d.memory.free), "B", IntV(0), r.memory_total),
                        {"free-memory", "total-memory"}, 1)
    ELSE IF g = 1
    THEN Yield(res, Metric("used", IntV(res.memory_total.n - d.memory.free), "B",
                           IntV(0), res.memory_total), {}, 2)
    ELSE Return(res, {})

\* \d+<unit> where s starts: the number and what follows the unit.
Number(s, unit, n) ==
    IF n >= 1 /\ Len(s) > n /\ s[n + 1] = unit
    THEN [ok |-> TRUE, n |-> IntOfDigits(SubSeq(s, 1, n)), rest |-> SubSeq(s, n + 2, Len(s))]
    ELSE [ok |-> FALSE, n |-> 0, rest |-> <<>>]

Seconds(h, m, sec) ==
    [ok |-> h.ok /\ m.ok /\ sec.ok, hours |-> h.n, minutes |-> m.n, seconds |-> sec.n]
Minutes(h, m) == Seconds(h, m, Number(m.rest, "s", DigitRun(m.rest)))
Hours(h) == Minutes(h, Number(h.rest, "m", DigitRun(h.rest)))

\* re.compile(r"(?P<hours>\d+)h(?P<minutes>\d+)m(?P<seconds>\d+)s").match(s):
\* the pattern must match where the string starts.
UptimeMatch(s) == Hours(Number(s, "h", DigitRun(s)))

\* The metric of a matched uptime, the ValueError of line 374 otherwise.
Uptime(res, m) ==
    IF ~m.ok THEN Raise(res, "ValueError", {"uptime"})
    ELSE Yield(res, Metric("uptime", IntV(m.hours * 60 * 60 + m.minutes * 60 + m.seconds),
                           "s", IntV(0), NoneV), {"uptime"}, 1)

\* SystemUptimeResource.probe
SystemUptimeResource_step(g, d, res) ==
    IF g = 0
    THEN IF d.rows = 0 THEN Raise(res, "IndexError", {})
         ELSE Uptime(res, UptimeMatch(d.uptime))
    ELSE Return(res, {})

\* strip_time(value)[0]: the digits the value starts with, None without any.
strip_time(value) ==
    IF DigitRun(value) >= 1 THEN IntV(IntOfDigits(SubSeq(value, 1, DigitRun(value))))
    ELSE NoneV

\* result[f] for the metric m: a field the answer lacks is a KeyError.
Field(res, r, f, m, next) ==
    IF f \in r.present THEN Yield(res, m, {f}, next) ELSE Raise(res, "KeyError", {f})

\* ToolPingCheck.probe up to the yield of "received"; max_packages is
\* self._max_packages.
PingSent(g, r, res, max_packages) ==
    IF g = 0
    THEN Field(res, r, "packet-loss",
               Metric("packet_loss", IntV(r.packet_loss), "%", IntV(0), IntV(100)), 1)
    ELSE IF g = 1
    THEN Field(res, r, "sent", Metric("sent", IntV(r.sent), "", IntV(0), IntV(max_packages)), 2)
    ELSE Field(res, r, "received",
               Metric("received", IntV(r.received), "", IntV(0), IntV(max_packages)), 3)

\* The body of `if result["received"] > 0`.
PingReceived(g, r, res) ==
    IF g = 3
    THEN Field(res, r, "min-rtt", Metric("rtt_min", strip_time(r.min_rtt), "", IntV(0), NoneV), 4)
    ELSE IF g = 4
    THEN Field(res, r, "max-rtt", Metric("rtt_max", strip_time(r.max_rtt), "", IntV(0), NoneV), 5)
    ELSE IF g = 5
    THEN Field(res, r, "avg-rtt", Metric("rtt_avg", strip_time(r.avg_rtt), "", IntV(0), NoneV), 6)
    ELSE IF g = 6
    THEN Field(res, r, "size", Metric("size", IntV(r.size), "", NoneV, NoneV), 7)
    ELSE IF g = 7
    THEN Field(res, r, "ttl", Metric("ttl", IntV(r.ttl), "", IntV(0), IntV(255)), 8)
    ELSE Return(res, {})

\* The step has read result["received"] for the test as well.
TestedReceived(st) == [st EXCEPT !.read = @ \cup {"received"}]

\* A probe that goes on to the round-trip times whatever was received.
ToolPingCheck_step_untested(g, d, res, max_packages) ==
    IF g = 0 /\ d.rows = 0 THEN Raise(res, "IndexError", {})
    ELSE IF g <= 2 THEN PingSent(g, d.ping, res, max_packages)
    ELSE PingReceived(g, d.ping, res)

\* ToolPingCheck.probe
ToolPingCheck_step(g, d, res, max_packages) ==
    IF g = 0 /\ d.rows = 0 THEN Raise(res, "IndexError", {})
    ELSE IF g <= 2 THEN PingSent(g, d.ping, res, max_packages)
    ELSE IF g = 3
    THEN (IF d.ping.received > 0 THEN TestedReceived(PingReceived(g, d.ping, res))
          ELSE Return(res, {"received"}))
    ELSE PingReceived(g, d.ping, res)

(***************************************************************************)
(* The command lines and the answers of the device                         *)
(***************************************************************************)
Commands == {"interface.vrrp", "system.memory", "system.uptime", "tool.ping"}

\* An option that is not given is None, which a Range takes as "".
NoOpts ==
    [used |-> TRUE, warning |-> <<>>, critical |-> <<>>, master |-> FALSE,
     packet_loss_warning |-> <<>>, packet_loss_critical |-> <<>>,
     ttl_warning |-> <<>>, ttl_critical |-> <<>>]

MemoryThresholds ==
    {<<"7", "0">>, <<"9", "0">>, <<"7", "0", "%">>, <<"9", "0", "%">>, <<"7", "0", "M">>}

Options(cmd) ==
    CASE cmd = "interface.vrrp" ->
           {[NoOpts EXCEPT !.master = m] : m \in BOOLEAN}
      [] cmd = "system.memory" ->
           {[NoOpts EXCEPT !.used = u, !.warning = w, !.critical = c] :
                u \in BOOLEAN, w \in MemoryThresholds, c \in MemoryThresholds}
      [] cmd = "system.uptime" -> {NoOpts}
      [] cmd = "tool.ping" ->
           {[NoOpts EXCEPT !.packet_loss_warning = w, !.packet_loss_critical = c,
                           !.ttl_warning = t] :
                w \in {<<>>, <<"5", "0">>, <<"5", "M">>}, c \in {<<>>, <<"8", "0">>},
                t \in {<<>>, <<"3", "2", ":">>}}

MemoryAnswers ==
    {[free |-> 200000000, total |-> 1000000000],
     [free |-> 50000000, total |-> 1000000000],
     [free |-> 950000000, total |-> 1000000000]}

\* RouterOS gives the uptime with weeks and days in front of the hours and
\* without the units that are zero.
UptimeAnswers ==
    {<<"3", "h", "4", "m", "5", "s">>, <<"1", "2", "h", "0", "m", "7", "s">>,
     <<"4", "m", "5", "s">>, <<"1", "d", "3", "h", "4", "m", "5", "s">>}

\* The last row of /ping: the round-trip times, the size and the ttl come
\* with a reply; without one the row may lack them.
PingBase == {"packet-loss", "sent", "received"}
PingReply == {"min-rtt", "max-rtt", "avg-rtt", "size", "ttl"}
PingAnswers ==
    {[present |-> PingBase \cup PingReply, packet_loss |-> 0, sent |-> 1, received |-> 1,
      min_rtt |-> <<"7", "m", "s">>, max_rtt |-> <<"1", "2", "m", "s">>,
      avg_rtt |-> <<"9", "m", "s", "5", "0", "0", "u", "s">>, size |-> 56, ttl |-> t] :
         t \in {16, 64}}
    \cup
    {[present |-> PingBase \cup extra, packet_loss |-> 100, sent |-> 1, received |-> 0,
      min_rtt |-> <<>>, max_rtt |-> <<>>, avg_rtt |-> <<>>, size |-> 0, ttl |-> 0] :
         extra \in {{}, PingReply}}

VrrpValues == {BoolV(TRUE), BoolV(FALSE), IntV(1)}
VrrpAnswers ==
    {[present |-> p, disabled |-> d, backup |-> BoolV(b), invalid |-> i, master |-> m,
      running |-> BoolV(~b)] :
         p \in {{}, {"master"}, {"invalid", "master"}, {"backup", "invalid", "master", "running"}},
         d \in VrrpValues, b \in BOOLEAN, i \in VrrpValues, m \in VrrpValues}

NoAnswer ==
    [connectOk |-> TRUE, rows |-> 1,
     memory |-> [free |-> 0, total |-> 0], uptime |-> <<>>,
     ping |-> [present |-> {}, packet_loss |-> 0, sent |-> 0, received |-> 0,
               min_rtt |-> <<>>, max_rtt |-> <<>>, avg_rtt |-> <<>>, size |-> 0, ttl |-> 0],
     vrrp |-> [present |-> {}, disabled |-> NoneV, backup |-> NoneV, invalid |-> NoneV,
               master |-> NoneV, running |-> NoneV]]

\* librouteros.connect may fail, and a query may give no row.
Answers(cmd) ==
    LET body == CASE cmd = "interface.vrrp" -> {[NoAnswer EXCEPT !.vrrp = a] : a \in VrrpAnswers}
                  [] cmd = "system.memory" -> {[NoAnswer EXCEPT !.memory = a] : a \in MemoryAnswers}
                  [] cmd = "system.uptime" -> {[NoAnswer EXCEPT !.uptime = a] : a \in UptimeAnswers}
                  [] cmd = "tool.ping" -> {[NoAnswer EXCEPT !.ping = a] : a \in PingAnswers}
    IN  {[a EXCEPT !.connectOk = c, !.rows = r] : a \in body, c \in BOOLEAN, r \in {0, 1}}

\* RouterOSCheckResource.__init__ and the __init__ of its subclasses: the
\* attributes before the probe.
NoResource ==
    [memory_total |-> NoneV, backup |-> NoneV, disabled |-> NoneV, enabled |-> NoneV,
     invalid |-> NoneV, master |-> NoneV, running |-> NoneV, master_must |-> NoneV,
     max_packages |-> NoneV]

NoContexts == [n \in {} |-> NoRange]

(***************************************************************************)
(* A run of the plugin                                                     *)
(***************************************************************************)
Init ==
    /\ pc = "cli"
    /\ command \in Commands
    /\ opts \in Options(command)
    /\ device \in Answers(command)
    /\ connected = FALSE
    /\ resource = NoResource
    /\ contexts = NoContexts
    /\ gen = 0
    /\ metric = NoMetric
    /\ yielded = <<>>
    /\ results = <<>>
    /\ perfdata = <<>>
    /\ fieldsRead = {}
    /\ totalRead = <<>>
    /\ printed = <<>>
    /\ exc = ""
    /\ status = ""
    /\ exitcode = -1
    /\ summary = <<>>
    /\ calls = 0
    /\ lastState = ""
    /\ perfSeen = <<>>

\* A command function has built its check and calls check.main, or one of
\* its contexts could not be built.
Built(res, cs, e) ==
    /\ resource' = res
    /\ contexts' = cs
    /\ exc' = e
    /\ pc' = IF e = "" THEN "probe" ELSE "raised"
    /\ UNCHANGED <<command, opts, device, connected, gen, metric, yielded, results, perfdata,
                   fieldsRead, totalRead, printed, status, exitcode, summary, calls,
                   lastState, perfSeen>>

interface_vrrp ==
    /\ pc = "cli" /\ command = "interface.vrrp"
    /\ Built([NoResource EXCEPT !.master_must = BoolV(opts.master)],
             [n \in {"backup", "disabled", "invalid", "master", "running"} |->
                 BooleanContext(CASE n = "disabled" -> "InterfaceVrrpDisabled"
                                  [] n = "invalid" -> "InterfaceVrrpInvalid"
                                  [] n = "master" -> "InterfaceVrrpMaster"
                                  [] OTHER -> "BooleanContext", n)],
             "")

system_memory ==
    /\ pc = "cli" /\ command = "system.memory"
    /\ LET plain == ScalarContext(IF opts.used THEN "free" ELSE "used", <<>>, <<>>)
           percent == IF opts.used
                      THEN ScalarPercentContext("used", "memory_total",
                                                opts.warning, opts.critical)
                      ELSE ScalarPercentContext("free", "memory_total",
                                                Append(opts.warning, ":"),
                                                Append(opts.critical, ":"))
       IN  Built(NoResource,
                 [n \in {"free", "used"} |-> IF n = percent.ctx.name THEN percent.ctx
                                             ELSE plain.ctx],
                 IF plain.exc # "" THEN plain.exc ELSE percent.exc)

system_uptime ==
    /\ pc = "cli" /\ command = "system.uptime"
    /\ LET c == ScalarContext("uptime", <<>>, <<>>)
       IN  Built(NoResource, [n \in {"uptime"} |-> c.ctx], c.exc)

tool_ping ==
    /\ pc = "cli" /\ command = "tool.ping"
    /\ LET c == [n \in {"packet_loss", "sent", "received", "rtt_avg", "rtt_min", "rtt_max",
                        "size", "ttl"} |->
                    CASE n = "packet_loss" -> ScalarContext(n, opts.packet_loss_warning,
                                                            opts.packet_loss_critical)
                      [] n = "ttl" -> ScalarContext(n, opts.ttl_warning, opts.ttl_critical)
                      [] OTHER -> ScalarContext(n, <<>>, <<>>)]
           bad == {n \in DOMAIN c : c[n].exc # ""}
       IN  Built([NoResource EXCEPT !.max_packages = IntV(1)],
                 [n \in DOMAIN c |-> c[n].ctx],
                 IF bad = {} THEN "" ELSE "ValueError")

\* RouterOSCheckResource._connect_api, the first call of every probe.
connect_api ==
    /\ pc = "probe" /\ gen = 0 /\ ~connected
    /\ connected' = TRUE
    /\ exc' = IF device.connectOk THEN "" ELSE "ConnectionError"
    /\ pc' = IF device.connectOk THEN "probe" ELSE "raised"
    /\ UNCHANGED <<command, opts, device, resource, contexts, gen, metric, yielded, results,
                   perfdata, fieldsRead, totalRead, printed, status, exitcode, summary,
                   calls, lastState, perfSeen>>

\* The check takes the next metric of the probe: the generator runs one step.
Resume(st) ==
    /\ pc = "probe" /\ connected
    /\ resource' = st.resource
    /\ fieldsRead' = fieldsRead \cup st.read
    /\ exc' = st.exc
    /\ pc' = IF st.exc # "" THEN "raised" ELSE IF st.done THEN "reduce" ELSE "evaluate"
    /\ IF st.exc = "" /\ ~st.done
       THEN /\ metric' = st.metric
            /\ yielded' = Append(yielded, st.metric.name)
            /\ gen' = st.next
       ELSE UNCHANGED <<metric, yielded, gen>>
    /\ UNCHANGED <<command, opts, device, connected, contexts, results, perfdata, totalRead,
                   printed, status, exitcode, summary, calls, lastState, perfSeen>>

InterfaceVrrpCheck_probe ==
    /\ command = "interface.vrrp"
    /\ Resume(InterfaceVrrpCheck_step(gen, device, resource))

SystemMemoryResource_probe ==
    /\ command = "system.memory"
    /\ Resume(SystemMemoryResource_step(gen, device, resource))

SystemUptimeResource_probe ==
    /\ command = "system.uptime"
    /\ Resume(SystemUptimeResource_step(gen, device, resource))

ToolPingCheck_probe ==
    /\ command = "tool.ping"
    /\ Resume(ToolPingCheck_step(gen, device, resource, resource.max_packages.n))

\* metric.evaluate(): the context of the metric's name gives a state, which
\* joins the results, or raises.  r is what the call left.
Evaluated(cls, r, total_value) ==
    /\ pc = "evaluate" /\ contexts[metric.name].cls = cls
    /\ contexts' = [contexts EXCEPT ![metric.name] = r.ctx]
    /\ printed' = printed \o r.printed
    /\ totalRead' = IF r.read THEN Append(totalRead, total_value) ELSE totalRead
    /\ exc' = r.exc
    /\ results' = IF r.exc = "" THEN Append(results, [name |-> metric.name, state |-> r.state])
                  ELSE results
    /\ pc' = IF r.exc = "" THEN "performance" ELSE "raised"
    /\ UNCHANGED <<command, opts, device, connected, resource, gen, metric, yielded, perfdata,
                   fieldsRead, status, exitcode, summary, calls, lastState, perfSeen>>

\* nagiosplugin.Context.evaluate, which BooleanContext inherits: always Ok.
BooleanContext_evaluate ==
    /\ pc = "evaluate"
    /\ Evaluated("BooleanContext", Plain(contexts[metric.name], "", "ok", NoPerf), NoneV)

InterfaceVrrpDisabled_evaluate ==
    /\ pc = "evaluate"
    /\ Evaluated("InterfaceVrrpDisabled",
                 Plain(contexts[metric.name], "", InterfaceVrrpDisabled(metric.value), NoPerf),
                 NoneV)

InterfaceVrrpInvalid_evaluate ==
    /\ pc = "evaluate"
    /\ Evaluated("InterfaceVrrpInvalid",
                 Plain(contexts[metric.name], "", InterfaceVrrpInvalid(metric.value), NoPerf),
                 NoneV)

InterfaceVrrpMaster_evaluate ==
    /\ pc = "evaluate"
    /\ Evaluated("InterfaceVrrpMaster",
                 Plain(contexts[metric.name], "",
                       InterfaceVrrpMaster(metric.value, resource.master_must), NoPerf),
                 NoneV)

\* nagiosplugin.ScalarContext.evaluate of a context built by a command.
ScalarContextEvaluate(c, value) ==
    IF value.t = "none" THEN Plain(c, "TypeError", "", NoPerf)
    ELSE Plain(c, "", ScalarEvaluate(c.warning, c.critical, value.n), NoPerf)

ScalarContext_evaluate ==
    /\ pc = "evaluate"
    /\ Evaluated("ScalarContext", ScalarContextEvaluate(contexts[metric.name], metric.value),
                 NoneV)

\* getattr(resource, self._total_name)
Total(c) == resource[c.total_name]

ScalarPercentContext_evaluate ==
    /\ pc = "evaluate" /\ contexts[metric.name].cls = "ScalarPercentContext"
    /\ Evaluated("ScalarPercentContext",
                 PercentEvaluate(contexts[metric.name], metric.value,
                                 Total(contexts[metric.name])),
                 Total(contexts[metric.name]))

\* metric.performance(): the context gives the performance data of the metric.
Performed(classes, r, total_value) ==
    /\ pc = "performance" /\ contexts[metric.name].cls \in classes
    /\ contexts' = [contexts EXCEPT ![metric.name] = r.ctx]
    /\ printed' = printed \o r.printed
    /\ totalRead' = IF r.read THEN Append(totalRead, total_value) ELSE totalRead
    /\ exc' = r.exc
    /\ perfdata' = IF r.exc = "" THEN Append(perfdata, r.perf) ELSE perfdata
    /\ pc' = IF r.exc = "" THEN "probe" ELSE "raised"
    /\ UNCHANGED <<command, opts, device, connected, resource, gen, metric, yielded, results,
                   fieldsRead, status, exitcode, summary, calls, lastState, perfSeen>>

BooleanContext_performance ==
    /\ pc = "performance"
    /\ Performed({"BooleanContext", "InterfaceVrrpDisabled", "InterfaceVrrpInvalid",
                  "InterfaceVrrpMaster"},
                 Plain(contexts[metric.name], "", "",
                       BooleanPerformance(metric.name, metric.value)),
                 NoneV)

ScalarContext_performance ==
    /\ pc = "performance"
    /\ Performed({"ScalarContext"},
                 Plain(contexts[metric.name], "", "",
                       ScalarPerformance(metric.name, metric.value,
                                         contexts[metric.name].warning,
                                         contexts[metric.name].critical)),
                 NoneV)

ScalarPercentContext_performance ==
    /\ pc = "performance" /\ contexts[metric.name].cls = "ScalarPercentContext"
    /\ Performed({"ScalarPercentContext"},
                 PercentPerformance(contexts[metric.name], metric.value,
                                    Total(contexts[metric.name])),
                 Total(contexts[metric.name]))

\* The probe is exhausted: check.main reduces the results, prints the status
\* line and exits with the code of the state.
check_main ==
    /\ pc = "reduce"
    /\ status' = MostSignificantState(results)
    /\ exitcode' = StateCode(MostSignificantState(results))
    /\ summary' = SummaryNames(IF command = "system.memory"
                               THEN (IF opts.used THEN <<"used">> ELSE <<"free">>)
                               ELSE <<>>, results)
    /\ perfdata' = SortedPerf(perfdata)
    /\ pc' = "done"
    /\ UNCHANGED <<command, opts, device, connected, resource, contexts, gen, metric, yielded,
                   results, fieldsRead, totalRead, printed, exc, calls, lastState, perfSeen>>

\* @nagiosplugin.guarded: an exception that leaves the command function is
\* reported as UNKNOWN and the process exits with 3.
guarded ==
    /\ pc = "raised" /\ Guarded(command)
    /\ status' = "unknown"
    /\ exitcode' = 3
    /\ pc' = "done"
    /\ UNCHANGED <<command, opts, device, connected, resource, contexts, gen, metric, yielded,
                   results, perfdata, fieldsRead, totalRead, printed, exc, summary, calls,
                   lastState, perfSeen>>

\* Without the decorator the exception ends the interpreter: a traceback and
\* the exit code 1.
uncaught ==
    /\ pc = "raised" /\ ~Guarded(command)
    /\ status' = "traceback"
    /\ exitcode' = 1
    /\ pc' = "done"
    /\ UNCHANGED <<command, opts, device, connected, resource, contexts, gen, metric, yielded,
                   results, perfdata, fieldsRead, totalRead, printed, exc, summary, calls,
                   lastState, perfSeen>>

Next ==
    \/ interface_vrrp \/ system_memory \/ system_uptime \/ tool_ping
    \/ connect_api
    \/ InterfaceVrrpCheck_probe \/ SystemMemoryResource_probe
    \/ SystemUptimeResource_probe \/ ToolPingCheck_probe
    \/ BooleanContext_evaluate \/ InterfaceVrrpDisabled_evaluate
    \/ InterfaceVrrpInvalid_evaluate \/ InterfaceVrrpMaster_evaluate
    \/ ScalarContext_evaluate \/ ScalarPercentContext_evaluate
    \/ BooleanContext_performance \/ ScalarContext_performance
    \/ ScalarPercentContext_performance
    \/ check_main \/ guarded \/ uncaught

Spec == Init /\ [][Next]_vars

(***************************************************************************)
(* A ScalarPercentContext on its own: evaluate and performance are called  *)
(* on it again and again, for any value, while the total of the resource   *)
(* may change between the calls.                                           *)
(***************************************************************************)
MaxCalls == 3
CtxSpecs ==
    {<<"5", "0", "%">>, <<"8", "0", "%">>, <<"5", "%", ":", "5", "0", "%">>, <<"5", "0">>,
     <<"5", "M">>}
CtxValues == {IntV(400), IntV(600), IntV(900)}
CtxTotals == {NoneV, IntV(1000), IntV(1024)}

\* The variables a context on its own leaves alone.
Idle ==
    /\ command = "" /\ opts = NoOpts /\ device = NoAnswer /\ connected = FALSE
    /\ gen = 0 /\ yielded = <<>> /\ fieldsRead = {} /\ summary = <<>>

CtxInit ==
    /\ Idle
    /\ pc = "ctx"
    /\ \E w \in CtxSpecs, c \in CtxSpecs :
          contexts = [n \in {"used"} |-> ScalarPercentContext("used", "memory_total", w, c).ctx]
    /\ \E t \in CtxTotals : resource = [NoResource EXCEPT !.memory_total = t]
    /\ metric = NoMetric /\ results = <<>> /\ perfdata = <<>>
    /\ totalRead = <<>> /\ printed = <<>> /\ exc = ""
    /\ status = "" /\ exitcode = -1
    /\ calls = 0 /\ lastState = "" /\ perfSeen = <<>>

\* A call on the context has left r.
CtxCalled(r, value, performance) ==
    /\ contexts' = [contexts EXCEPT !["used"] = r.ctx]
    /\ printed' = printed \o r.printed
    /\ totalRead' = IF r.read THEN Append(totalRead, resource.memory_total) ELSE totalRead
    /\ exc' = r.exc
    /\ metric' = Metric("used", value, "B", IntV(0), NoneV)
    /\ lastState' = IF performance THEN lastState ELSE r.state
    /\ perfSeen' = IF performance /\ r.exc = "" THEN (value.n :> r.perf) @@ perfSeen
                   ELSE perfSeen
    /\ calls' = calls + 1
    /\ UNCHANGED <<pc, command, opts, device, connected, resource, gen, yielded, results,
                   perfdata, fieldsRead, status, exitcode, summary>>

CtxEvaluate ==
    /\ pc = "ctx" /\ calls < MaxCalls
    /\ \E v \in CtxValues :
          CtxCalled(PercentEvaluate(contexts["used"], v, resource.memory_total), v, FALSE)

CtxPerformance ==
    /\ pc = "ctx" /\ calls < MaxCalls
    /\ \E v \in CtxValues :
          CtxCalled(PercentPerformance(contexts["used"], v, resource.memory_total), v, TRUE)

\* A later probe gives the resource another total.
CtxSetTotal ==
    /\ pc = "ctx"
    /\ \E t \in CtxTotals \ {NoneV} : resource' = [resource EXCEPT !.memory_total = t]
    /\ UNCHANGED <<pc, command, opts, device, connected, contexts, gen, metric, yielded,
                   results, perfdata, fieldsRead, totalRead, printed, exc, status, exitcode,
                   summary, calls, lastState, perfSeen>>

CtxNext == CtxEvaluate \/ CtxPerformance \/ CtxSetTotal

SpecCtx == CtxInit /\ [][CtxNext]_vars

(***************************************************************************)
(* The resolution of every threshold string up to MaxLen characters over   *)
(* SubAlphabet, by the first evaluate of a context.                        *)
(***************************************************************************)
MaxLen == 3
SubAlphabet == {"0", "5", "%", "M", ":", "@"}

RECURSIVE Strings(_)
Strings(n) ==
    IF n = 0 THEN {<<>>}
    ELSE Strings(n - 1) \cup {Append(x, c) : x \in Strings(n - 1), c \in SubAlphabet}

SubInit ==
    /\ Idle
    /\ pc = "sub"
    /\ \E w \in Strings(MaxLen), c \in {<<"8", "0", "%">>, <<>>} :
          contexts = [n \in {"used"} |-> ScalarPercentContext("used", "memory_total", w, c).ctx]
    /\ \E t \in CtxTotals : resource = [NoResource EXCEPT !.memory_total = t]
    /\ metric = NoMetric /\ results = <<>> /\ perfdata = <<>>
    /\ totalRead = <<>> /\ printed = <<>> /\ exc = ""
    /\ status = "" /\ exitcode = -1
    /\ calls = 0 /\ lastState = "" /\ perfSeen = <<>>

SubEvaluate ==
    /\ pc = "sub" /\ calls = 0
    /\ \E v \in CtxValues :
          CtxCalled(PercentEvaluate(contexts["used"], v, resource.memory_total), v, FALSE)

SubNext == SubEvaluate

SpecSub == SubInit /\ [][SubNext]_vars

(***************************************************************************)
(* The reduction of any results to the state of the check.                 *)
(***************************************************************************)
MaxResults == 4
States == {"ok", "warning", "critical", "unknown"}

AggInit ==
    /\ Idle
    /\ pc = "agg"
    /\ contexts = NoContexts /\ resource = NoResource
    /\ metric = NoMetric /\ results = <<>> /\ perfdata = <<>>
    /\ totalRead = <<>> /\ printed = <<>> /\ exc = ""
    /\ status = "" /\ exitcode = -1
    /\ calls = 0 /\ lastState = "" /\ perfSeen = <<>>

\* A result joins the results; the state and the exit code of the check are
\* what check.main would report now.
AggAdd ==
    /\ pc = "agg" /\ Len(results) < MaxResults
    /\ \E st \in States : results' = Append(results, [name |-> "metric", state |-> st])
    /\ status' = MostSignificantState(results')
    /\ exitcode' = StateCode(MostSignificantState(results'))
    /\ UNCHANGED <<pc, command, opts, device, connected, resource, contexts, gen, metric,
                   yielded, perfdata, fieldsRead, totalRead, printed, exc, summary, calls,
                   lastState, perfSeen>>

AggNext == AggAdd

SpecAgg == AggInit /\ [][AggNext]_vars

(***************************************************************************)
(* Properties of a run of the plugin (Spec)                                *)
(***************************************************************************)
\* The device answers the query of the probe: the connection is made and the
\* query gives a row.
Answering == device.connectOk /\ device.rows = 1

\* A threshold of system.memory carries a unit other than "%".
MalformedOpts ==
    \/ \E i \in 1..Len(opts.warning) : opts.warning[i] = "M"
    \/ \E i \in 1..Len(opts.critical) : opts.critical[i] = "M"

\* system.memory --used --warning w --critical c with free=200000000 and
\* total=1000000000 has run to its end.
MemoryRun(w, c) ==
    /\ pc = "done" /\ command = "system.memory" /\ Answering
    /\ opts.used /\ opts.warning = w /\ opts.critical = c
    /\ device.memory = [free |-> 200000000, total |-> 1000000000]

\* C2 as stated: with --used --warning 70 --critical 90, free=200000000 and
\* total=1000000000 the status is WARNING, the summary is built from the
\* "used" result and the exit code is 1.
C2_BareNumbersWarn ==
    MemoryRun(<<"7", "0">>, <<"9", "0">>)
        => status = "warning" /\ summary = <<"used">> /\ exitcode = 1

\* C2 (amended): with --used --warning 70% --critical 90%, free=200000000 and
\* total=1000000000 the status is WARNING, the summary is built from the
\* "used" result and the exit code is 1; with the bare thresholds 70 and 90,
\* which are bytes, the status is CRITICAL and the exit code 2.
C2_PercentWarn ==
    /\ MemoryRun(<<"7", "0", "%">>, <<"9", "0", "%">>)
          => /\ status = "warning" /\ summary = <<"used">> /\ exitcode = 1
             /\ results = <<[name |-> "free", state |-> "ok"],
                            [name |-> "used", state |-> "warning"]>>
    /\ MemoryRun(<<"7", "0">>, <<"9", "0">>)
          => status = "critical" /\ summary = <<"used">> /\ exitcode = 2

C2_Witness ==
    /\ MemoryRun(<<"7", "0", "%">>, <<"9", "0", "%">>)
    /\ metric.name = "used" /\ metric.value = IntV(800000000)
    /\ status = "warning"

PingLost == <<"packet_loss", "sent", "received">>
PingReplied == PingLost \o <<"rtt_min", "rtt_max", "rtt_avg", "size", "ttl">>

\* C5: with received=0 the ping probe yields exactly packet_loss, sent,
\* received in that order, reads none of the fields min-rtt, max-rtt,
\* avg-rtt, size, ttl and raises no missing-field error; with received > 0
\* it yields rtt_min, rtt_max, rtt_avg, size, ttl after them.
C5_PingMetrics ==
    (command = "tool.ping" /\ Answering)
        => /\ Len(yielded) <= Len(PingReplied)
           /\ yielded = SubSeq(PingReplied, 1, Len(yielded))
           /\ device.ping.received = 0
                => /\ Len(yielded) <= Len(PingLost)
                   /\ fieldsRead \cap PingReply = {}
                   /\ exc # "KeyError"
                   /\ (pc = "done" /\ exc = "") => yielded = PingLost
           /\ (device.ping.received > 0 /\ pc = "done" /\ exc = "")
                => yielded = PingReplied /\ PingReply \subseteq fieldsRead

C5_Witness ==
    /\ command = "tool.ping" /\ Answering /\ pc = "done" /\ exc = ""
    /\ device.ping.received = 0 /\ device.ping.present = PingBase
    /\ yielded = PingLost

\* The uptime strings of UptimeAnswers that the pattern does not match where
\* they start.
MalformedUptimes == {<<"4", "m", "5", "s">>, <<"1", "d", "3", "h", "4", "m", "5", "s">>}

\* C6: when the device returns an uptime that does not match
\* <hours>h<minutes>m<seconds>s, the probe of system.uptime yields no metric
\* and the check ends UNKNOWN with exit code 3.
C6_MalformedUptime ==
    (command = "system.uptime" /\ device.uptime \in MalformedUptimes)
        => /\ yielded = <<>> /\ results = <<>>
           /\ pc = "done" => status = "unknown" /\ exitcode = 3
           /\ (pc = "done" /\ Answering) => exc = "ValueError"

C6_Witness ==
    /\ command = "system.uptime" /\ device.uptime \in MalformedUptimes /\ Answering
    /\ pc = "done" /\ exc = "ValueError" /\ exitcode = 3

\* C8: evaluating a metric, InterfaceVrrpDisabled and InterfaceVrrpInvalid
\* give WARNING when the value is True, InterfaceVrrpMaster gives WARNING
\* when the value is falsy and master_must is set, each gives OK otherwise
\* (never CRITICAL or UNKNOWN), and the metric stays as it was.
C8_VrrpContexts ==
    [][(pc = "evaluate"
          /\ metric.name \in {"disabled", "invalid", "master"} /\ command = "interface.vrrp")
        => /\ metric' = metric
           /\ results' = Append(results,
                  [name |-> metric.name,
                   state |-> IF \/ /\ metric.name \in {"disabled", "invalid"}
                                   /\ metric.value = BoolV(TRUE)
                                \/ /\ metric.name = "master"
                                   /\ metric.value \in {BoolV(FALSE), IntV(0), NoneV}
                                   /\ opts.master
                             THEN "warning" ELSE "ok"])]_vars

\* The three contexts have evaluated their metrics: the interface is not
\* disabled, its configuration is invalid and it is not master where it must.
C8_Witness ==
    /\ command = "interface.vrrp" /\ pc = "performance" /\ opts.master
    /\ metric.name = "master" /\ metric.value = BoolV(FALSE)
    /\ results = <<[name |-> "disabled", state |-> "ok"],
                   [name |-> "invalid", state |-> "warning"],
                   [name |-> "master", state |-> "warning"]>>

\* C10: in every run of system.memory, whenever _prepare_ranges reads
\* memory_total the probe has assigned it from the answer of the device: it
\* is never None.
C10_TotalKnown ==
    command = "system.memory"
        => \A i \in 1..Len(totalRead) :
              totalRead[i] # NoneV /\ totalRead[i] = IntV(device.memory.total)

C10_Witness ==
    /\ command = "system.memory" /\ ~opts.used /\ Len(totalRead) >= 1
    /\ yielded = <<"free">> /\ resource.memory_total = IntV(1000000000)

(***************************************************************************)
(* Properties of the percent resolution (SpecSub, SpecCtx)                 *)
(***************************************************************************)
\* The context under the calls and its total.
Ctx == contexts["used"]
CtxTotal == resource.memory_total

\* total * v / 100 as a decimal.
Percent(total, v) ==
    Fin((total * v) \div 100,
        StripZeros(<<DigitChar(((total * v) % 100) \div 10), DigitChar((total * v) % 10)>>))

\* s is <integer>% after the prefix of pre characters and before the suffix
\* of post characters; its integer.
IsToken(s, pre, post) ==
    /\ Len(s) >= pre + post + 2
    /\ s[Len(s) - post] = "%"
    /\ AllDigits(SubSeq(s, pre + 1, Len(s) - post - 1))
TokenValue(s, pre, post) == IntOfDigits(SubSeq(s, pre + 1, Len(s) - post - 1))

C4_Memoized ==
    [][/\ (pc = "ctx" /\ ~Ctx.warning.none /\ ~Ctx.critical.none)
            => /\ contexts' = contexts
               /\ totalRead' = totalRead
               /\ printed' = printed
               /\ exc' = ""
       /\ pc = "ctx" => \A v \in DOMAIN perfSeen : perfSeen'[v] = perfSeen[v]]_vars

\* Resolved with the total 1000, the context has answered performance twice
\* for 600 after the total became 1024.
C4_Witness ==
    /\ pc = "ctx" /\ calls = 3 /\ exc = ""
    /\ totalRead = <<IntV(1000)>> /\ CtxTotal = IntV(1024)
    /\ Ctx.p_warning = <<"5", "0", "%">> /\ Ctx.warning = Range(<<"5", "0", "0">>).r
    /\ lastState = "warning" /\ 600 \in DOMAIN perfSeen

(***************************************************************************)
(* Properties of the reduction (SpecAgg)                                   *)
(***************************************************************************)
\* The states of the results, in their order.
ResultStates == [i \in 1..Len(results) |-> results[i].state]
Has(st) == \E i \in 1..Len(results) : results[i].state = st

====
